---- MODULE Spec2Model ----
(***************************************************************************)
(* Session manager (src/session_manager.py) and task pipeline              *)
(* (src/api.py) of the browser automation API.                             *)
(*                                                                         *)
(* The Redis server is one key space of hashes (session:{id}) and lists    *)
(* (history:{id}) with per-key expiry.  The Redis client is the blocking   *)
(* redis.Redis client, so no SessionManager method suspends except         *)
(* clear_inactive_sessions at `await browser.close()`; execute_task        *)
(* suspends at call_ragflow_api, llm.ainvoke, agent.run and inside         *)
(* get_clean_screenshot.  One action is the code between two suspensions.  *)
(*                                                                         *)
(* The clock counts seconds.  Two successive datetime.now() reads may      *)
(* differ; the smallest difference the model can show is one clock unit.   *)
(***************************************************************************)
EXTENDS Integers, Sequences, FiniteSets, TLC

\* ------------------------------------------------------------------ bounds
MaxUuid == 4
MaxRequests == 2
MaxServed == 2
MaxTicks == 3
NumUrls == 2
MaxCalls == 4
MaxSteps == 2

\* --------------------------------------------------------------- constants
SESSION_TIMEOUT == 1800

\* Python None (a missing hash field, a missing header, hget of a missing key)
None == -1
\* the empty string "" that create_session stores as current_url
EmptyStr == 0
\* "browser_id not in self.browsers": no entry under that key
NoHandle == 0
\* a session id a client presents that no create_session ever minted
UnknownId == 0

Urls == 1..NumUrls
Uuids == 1..MaxUuid
SessionIds == {UnknownId} \cup Uuids
PoolKeys == {None} \cup Uuids
Requests == 1..MaxRequests
TickStep == SESSION_TIMEOUT \div 2
MaxClock == MaxTicks * TickStep

Min(a, b) == IF a < b THEN a ELSE b

\* ------------------------------------------------------------------- state
VARIABLES
    redis,      \* the Redis key space: key -> value (hash or list) with expiry
    browsers,   \* SessionManager.browsers: pool key -> Browser object
    objects,    \* the Browser objects constructed so far: object -> pool key
    closed,     \* the Browser objects on which close() was called
    uuids,      \* how many uuid4() values were drawn
    now,        \* the wall clock (datetime.now(), Redis server time)
    req,        \* the execute_task requests, one per slot
    served,     \* how many execute_task requests were received
    clear,      \* the clear_inactive_sessions pass
    ret,        \* the last direct SessionManager call and what it returned
    calls,      \* how many direct SessionManager calls were made
    dead,       \* session ids whose record expired or was reclaimed
    appended,   \* per session id, the entries appended since history:{id} was last absent
    last_ok     \* per session id, browser and url of the last successful request

vars == <<redis, browsers, objects, closed, uuids, now, req, served, clear,
          ret, calls, dead, appended, last_ok>>

\* ------------------------------------------------------------ Redis server
SessionKey(session_id) == <<"session", session_id>>
HistoryKey(session_id) == <<"history", session_id>>
RedisKeys == {SessionKey(i) : i \in SessionIds} \cup {HistoryKey(i) : i \in SessionIds}

HashFields == {"created_at", "last_active", "current_url", "browser_id"}

\* a key that does not exist
Nil == [kind |-> "none", created_at |-> None, last_active |-> None,
        current_url |-> None, browser_id |-> None, items |-> <<>>,
        expire_at |-> None]

\* the state the methods read and write
World == [redis |-> redis, browsers |-> browsers, objects |-> objects,
          closed |-> closed, uuids |-> uuids, now |-> now]

exists(w, key) == w.redis[key].kind # "none"

\* HGET: None for a missing key or a missing field
hget(w, key, field) == w.redis[key][field]

\* HSET key mapping: creates the hash (with no expiry) when the key is missing
hset(w, key, mapping) ==
    LET old == w.redis[key]
        new == [f \in DOMAIN old |->
                  IF f = "kind" THEN "hash"
                  ELSE IF f \in DOMAIN mapping THEN mapping[f]
                  ELSE old[f]]
    IN [w EXCEPT !.redis[key] = new]

\* EXPIRE key seconds: nothing when the key is missing
expire(w, key, seconds) ==
    IF exists(w, key)
    THEN [w EXCEPT !.redis[key].expire_at = w.now + seconds]
    ELSE w

\* DEL key
delete(w, key) == [w EXCEPT !.redis[key] = Nil]

\* RPUSH key value: creates the list (with no expiry) when the key is missing
rpush(w, key, value) ==
    [w EXCEPT !.redis[key].kind = "list",
              !.redis[key].items = Append(@, value)]

\* LRANGE key start stop, with Redis' index normalisation (0-based, inclusive)
lrange(w, key, start, stop) ==
    LET items == w.redis[key].items
        llen == Len(items)
        s0 == IF start < 0 THEN llen + start ELSE start
        e0 == IF stop < 0 THEN llen + stop ELSE stop
        s == IF s0 < 0 THEN 0 ELSE s0
        e == IF e0 >= llen THEN llen - 1 ELSE e0
    IN IF s > e \/ s >= llen THEN <<>> ELSE SubSeq(items, s + 1, e + 1)

\* KEYS session:*
keys_session(w) == {k \in RedisKeys : k[1] = "session" /\ exists(w, k)}

\* a key is gone once the server time is past its expiry
Expired(w, key) ==
    /\ exists(w, key)
    /\ w.redis[key].expire_at # None
    /\ w.now > w.redis[key].expire_at

Purge(w) ==
    [w EXCEPT !.redis = [k \in RedisKeys |-> IF Expired(w, k) THEN Nil ELSE w.redis[k]]]

\* the clock moves on by d and the server drops what expired
Advance(w, d) == Purge([w EXCEPT !.now = w.now + d])

\* json.dumps / json.loads of a history entry
json_dumps(item) == <<"json", item>>
json_loads(text) == text[2]

\* ---------------------------------------------------------- SessionManager
\* A method is an operator from the state before to [w: the state after,
\* raised: whether it raised, ret: what it returned].

\* uuid.uuid4(): the n-th value drawn after those already drawn
uuid4(w, n) == w.uuids + n

\* create_session; d is the time between its two datetime.now() reads, the
\* second of which returns w.now
create_session(w, d) ==
    LET session_id == uuid4(w, 1)
        created_at == w.now - d
        w1 == [w EXCEPT !.uuids = w.uuids + 2]
        last_active == w.now
        w2 == hset(w1, SessionKey(session_id),
                   [created_at |-> created_at,
                    last_active |-> last_active,
                    current_url |-> EmptyStr,
                    browser_id |-> uuid4(w, 2)])
        w3 == expire(w2, SessionKey(session_id), SESSION_TIMEOUT)
    IN [w |-> w3, raised |-> FALSE, ret |-> session_id]

\* mutant: the record is not looked up
SessionIsLiveUnchecked(w, session_id) == session_id # None

\* the live-record test of get_session
SessionIsLive(w, session_id) ==
    session_id # None /\ exists(w, SessionKey(session_id))

\* the refresh get_session gives a live record
TouchSession(w, session_id) ==
    expire(hset(w, SessionKey(session_id), [last_active |-> w.now]),
           SessionKey(session_id), SESSION_TIMEOUT)

get_session(w, session_id, d) ==
    IF SessionIsLive(w, session_id)
    THEN [w |-> TouchSession(w, session_id), raised |-> FALSE, ret |-> session_id]
    ELSE create_session(w, d)

\* whether get_session(session_id) has to mint a session
Mints(w, session_id) == ~SessionIsLive(w, session_id)

\* mutant: the pool is not looked up
NeedsBrowserAlways(w, browser_id) == TRUE

\* "not browser_id or browser_id not in self.browsers"
NeedsBrowser(w, browser_id) ==
    browser_id = None \/ w.browsers[browser_id] = NoHandle

\* Browser(config=config); self.browsers[browser_id] = browser
ConstructBrowser(w, browser_id) ==
    [w EXCEPT !.objects = Append(@, browser_id),
              !.browsers[browser_id] = Len(w.objects) + 1]

\* mutant: the pool key is reserved before the constructor runs
BrowserFailedKeyReserved(w, browser_id) ==
    [w EXCEPT !.browsers[browser_id] = Len(w.objects) + 1]

\* Browser(config=config) raised: the assignment to self.browsers is not reached
BrowserFailed(w, browser_id) == w

\* built: whether the Browser constructor returns (TRUE) or raises (FALSE)
get_browser(w, session_id, built) ==
    LET browser_id == hget(w, SessionKey(session_id), "browser_id")
    IN IF NeedsBrowser(w, browser_id)
       THEN IF built
            THEN LET w1 == ConstructBrowser(w, browser_id)
                 IN [w |-> w1, raised |-> FALSE, ret |-> w1.browsers[browser_id]]
            ELSE [w |-> BrowserFailed(w, browser_id), raised |-> TRUE,
                  ret |-> NoHandle]
       ELSE [w |-> w, raised |-> FALSE, ret |-> w.browsers[browser_id]]

\* mutant: the expiry is renewed and the fields are not written
update_session_expire_only(w, session_id, data) ==
    [w |-> expire(w, SessionKey(session_id), SESSION_TIMEOUT),
     raised |-> FALSE, ret |-> None]

update_session(w, session_id, data) ==
    LET w1 == expire(w, SessionKey(session_id), SESSION_TIMEOUT)
    IN [w |-> hset(w1, SessionKey(session_id), data), raised |-> FALSE, ret |-> None]

\* history_item["timestamp"] = datetime.now().isoformat()
Stamp(w, history_item) ==
    [f \in DOMAIN history_item \cup {"timestamp"} |->
        IF f = "timestamp" THEN w.now ELSE history_item[f]]

add_history(w, session_id, history_item) ==
    LET history_key == HistoryKey(session_id)
        w1 == rpush(w, history_key, json_dumps(Stamp(w, history_item)))
    IN [w |-> expire(w1, history_key, SESSION_TIMEOUT), raised |-> FALSE, ret |-> None]

\* hgetall: the fields the hash holds
hgetall(w, key) ==
    LET h == w.redis[key]
    IN [f \in {g \in HashFields : h[g] # None} |-> h[f]]

get_session_data(w, session_id) ==
    LET data == hgetall(w, SessionKey(session_id))
    IN IF DOMAIN data = {}
       THEN [w |-> w, raised |-> TRUE, ret |-> None]
       ELSE [w |-> w, raised |-> FALSE, ret |-> data]

\* data.get(field) of a get_session_data result
DataGet(data, field) == IF field \in DOMAIN data THEN data[field] ELSE None

\* mutant: the first `limit` entries instead of the last
get_history_first(w, session_id, limit) ==
    LET raw_items == IF limit > 0
                     THEN lrange(w, HistoryKey(session_id), 0, limit - 1)
                     ELSE lrange(w, HistoryKey(session_id), 0, -1)
    IN [w |-> w, raised |-> FALSE,
        ret |-> [i \in 1..Len(raw_items) |-> json_loads(raw_items[i])]]

get_history(w, session_id, limit) ==
    LET history_key == HistoryKey(session_id)
        raw_items == IF limit > 0
                     THEN lrange(w, history_key, 0 - limit, -1)
                     ELSE lrange(w, history_key, 0, -1)
    IN [w |-> w, raised |-> FALSE,
        ret |-> [i \in 1..Len(raw_items) |-> json_loads(raw_items[i])]]

\* mutant: inactive from SESSION_TIMEOUT on, not after it
IsInactiveAtTimeout(w, last_active) == w.now - last_active >= SESSION_TIMEOUT

\* "datetime.now() - last_active_time > timedelta(seconds=SESSION_TIMEOUT)"
IsInactive(w, last_active) == w.now - last_active > SESSION_TIMEOUT

\* redis.delete(key); redis.delete(f"history:{session_id}")
DeleteSession(w, key) == delete(delete(w, key), HistoryKey(key[2]))

\* the pass when it is not running
ClearIdle == [pc |-> "idle", keys |-> <<>>, key |-> <<"none", None>>,
              browser |-> NoHandle]

\* The loop of clear_inactive_sessions over the keys not yet visited, run up
\* to its next suspension (await browser.close()) or to its end.
RECURSIVE ClearLoop(_, _)
ClearLoop(w, keys) ==
    IF keys = <<>> THEN [w |-> w, clear |-> ClearIdle]
    ELSE
      LET key == Head(keys)
          last_active == hget(w, key, "last_active")
      IN IF last_active = None THEN ClearLoop(w, Tail(keys))
         ELSE IF IsInactive(w, last_active)
         THEN LET browser_id == hget(w, key, "browser_id")
              IN IF w.browsers[browser_id] # NoHandle
                 THEN [w |-> [w EXCEPT !.browsers[browser_id] = NoHandle],
                       clear |-> [pc |-> "closing", keys |-> Tail(keys),
                                  key |-> key,
                                  browser |-> w.browsers[browser_id]]]
                 ELSE ClearLoop(DeleteSession(w, key), Tail(keys))
         ELSE ClearLoop(w, Tail(keys))

\* browser.close() returned: the rest of the iteration, then the loop goes on
ClearAfterClose(w, c) ==
    ClearLoop(DeleteSession([w EXCEPT !.closed = @ \cup {c.browser}], c.key), c.keys)

\* ------------------------------------------------------------- bookkeeping
\* the session ids create_session has returned so far
Minted == {i \in Uuids : i <= uuids /\ i % 2 = 1}

\* the records that a step removed from the store
Dies(w0, w1) ==
    {i \in SessionIds : exists(w0, SessionKey(i)) /\ ~exists(w1, SessionKey(i))}

\* A step from World to w1; reclaiming: the session ids whose browser the step
\* took out of the pool; push: <<>> or <<session_id, entry>> for an add_history.
Commit(w1, reclaiming, push) ==
    /\ redis' = w1.redis
    /\ browsers' = w1.browsers
    /\ objects' = w1.objects
    /\ closed' = w1.closed
    /\ uuids' = w1.uuids
    /\ now' = w1.now
    /\ dead' = dead \cup Dies(World, w1) \cup reclaiming
    /\ appended' = [k \in SessionIds |->
                      IF ~exists(w1, HistoryKey(k)) THEN <<>>
                      ELSE IF push # <<>> /\ push[1] = k
                      THEN Append(appended[k], push[2])
                      ELSE appended[k]]

\* the time between two datetime.now() reads
Jitter == {d \in 0..1 : d <= now}

\* ------------------------------------------------------------ execute_task
IdleReq == [pc |-> "idle", task |-> 0, session_id |-> None,
            current_url |-> None, detailed_task |-> "none", browser |-> NoHandle,
            new_url |-> None, status |-> "none", stage |-> "none",
            screenshot |-> "none", include_screenshot |-> FALSE,
            inline |-> FALSE, ragflow_session_id |-> "none",
            ragflow_calls |-> 0]

Free(r) == req[r].pc \in {"idle", "done"}

\* the except clause of execute_task: HTTP 500, whatever was raised at `stage`
Fail(r, stage) ==
    req' = [req EXCEPT ![r] = [IdleReq EXCEPT !.pc = "done", !.status = "error",
                                              !.stage = stage]]

\* The request arrives: the get_session dependency, then execute_task up to
\* its first await (call_ragflow_api).
Receive(r) ==
    /\ Free(r)
    /\ \A q \in Requests : q < r => ~Free(q)
    /\ served < MaxServed
    /\ \E header \in {None} \cup Minted, new_session \in BOOLEAN,
          has_ragflow_session \in BOOLEAN, d1 \in Jitter, d2 \in Jitter :
         LET mints1 == Mints(World, header)
             n == (IF mints1 THEN 1 ELSE 0) + (IF new_session THEN 1 ELSE 0)
             dep == get_session(World, header, d1)
             new == IF new_session THEN create_session(dep.w, d2) ELSE dep
         IN /\ uuids + 2 * n <= MaxUuid
            /\ mints1 \/ d1 = 0
            /\ new_session \/ d2 = 0
            /\ Commit(new.w, {}, <<>>)
            /\ req' = [req EXCEPT ![r] =
                         [IdleReq EXCEPT !.pc = IF has_ragflow_session
                                               THEN "rag2" ELSE "rag1",
                                         !.task = served + 1,
                                         !.session_id = new.ret,
                                         !.ragflow_session_id =
                                            IF has_ragflow_session
                                            THEN "given" ELSE "none",
                                         !.ragflow_calls = 1]]
            /\ served' = served + 1
    /\ UNCHANGED <<clear, ret, calls, last_ok>>

\* mutant: a response without a session id is not checked
FirstAnswerUnchecked(r, got_session_id) ==
    req' = [req EXCEPT ![r].pc = "rag2",
                       ![r].ragflow_session_id =
                          IF got_session_id THEN "obtained" ELSE "none",
                       ![r].ragflow_calls = @ + 1]

\* the first response: with a session id the handler keeps it and awaits the
\* second call_ragflow_api, without one (or when the call raised) HTTP 500
FirstAnswer(r, got_session_id) ==
    IF got_session_id
    THEN req' = [req EXCEPT ![r].pc = "rag2",
                            ![r].ragflow_session_id = "obtained",
                            ![r].ragflow_calls = @ + 1]
    ELSE Fail(r, "ragflow")

\* the first call_ragflow_api (no session) returns
RagflowSession(r) ==
    /\ req[r].pc = "rag1"
    /\ \E got_session_id \in BOOLEAN : FirstAnswer(r, got_session_id)
    /\ UNCHANGED <<redis, browsers, objects, closed, uuids, now, served, clear,
                   ret, calls, dead, appended, last_ok>>

\* the call_ragflow_api bound to the session returns; with an answer the
\* handler reads the session data and awaits process_user_task.  The later
\* stages make no call_ragflow_api and the model drops the stage's two fields.
RagflowAnswer(r) ==
    /\ req[r].pc = "rag2"
    /\ \E got_answer \in BOOLEAN :
         LET session_data == get_session_data(World, req[r].session_id)
         IN IF got_answer /\ ~session_data.raised
            THEN req' = [req EXCEPT ![r].pc = "llm",
                           ![r].current_url = DataGet(session_data.ret, "current_url"),
                           ![r].ragflow_session_id = "none",
                           ![r].ragflow_calls = 0]
            ELSE Fail(r, IF got_answer THEN "session" ELSE "ragflow")
    /\ UNCHANGED <<redis, browsers, objects, closed, uuids, now, served, clear,
                   ret, calls, dead, appended, last_ok>>

\* process_user_task: llm.ainvoke returned (refined) or raised; whatever it
\* raises becomes HTTPException(500)
process_user_task(llm_ok) ==
    IF llm_ok THEN [raised |-> FALSE, ret |-> "refined"]
    ELSE [raised |-> TRUE, ret |-> "none"]

\* process_user_task is over; on success get_browser (whose Browser
\* constructor may raise), Agent(...) and the handler awaits agent.run
Refined(r) ==
    /\ req[r].pc = "llm"
    /\ \E llm_ok \in BOOLEAN, built \in BOOLEAN :
         LET detailed_task == process_user_task(llm_ok)
             got == get_browser(World, req[r].session_id, built)
         IN IF detailed_task.raised
            THEN /\ built
                 /\ Fail(r, "refine")
                 /\ UNCHANGED <<redis, browsers, objects, closed, uuids, now,
                                dead, appended>>
            ELSE /\ built \/ got.raised
                 /\ Commit(got.w, {}, <<>>)
                 /\ IF got.raised
                    THEN Fail(r, "browser")
                    ELSE req' = [req EXCEPT ![r].pc = "run",
                                            ![r].detailed_task = detailed_task.ret,
                                            ![r].browser = got.ret]
    /\ UNCHANGED <<served, clear, ret, calls, last_ok>>

\* -------------------------------------------------- the response message
\* A text is a sequence of characters; a message is a sequence of parts.

\* the evaluation texts a step can carry
ReCaptchaDetected == <<"R", "e", "C", "A", "P", "T", "C", "H", "A", " ", "o", "n">>
CaptchaLower == <<"c", "a", "p", "t", "c", "h", "a">>
CaptchaMixed == <<"a", " ", "C", "a", "p", "t", "c", "h", "a", "!">>
CaptPartial == <<"c", "a", "p", "t", " ", "c", "h", "a">>
PageLoaded == <<"o", "n", " ", "p", "a", "g", "e">>
EmptyText == <<>>
EvalTexts == {ReCaptchaDetected, CaptchaLower, CaptchaMixed, CaptPartial,
              PageLoaded, EmptyText}

\* mutant: the text is searched as it is
lower_identity(text) == text

\* str.lower()
lower(text) ==
    LET low(c) == CASE c = "A" -> "a" [] c = "C" -> "c" [] c = "H" -> "h"
                    [] c = "P" -> "p" [] c = "R" -> "r" [] c = "T" -> "t"
                    [] OTHER -> c
    IN [i \in 1..Len(text) |-> low(text[i])]

\* needle in text
In(needle, text) ==
    \E i \in 0..(Len(text) - Len(needle)) :
      SubSeq(text, i + 1, i + Len(needle)) = needle

\* a step without eval (no attribute, or a falsy one)
NoEval == [present |-> FALSE, text |-> EmptyText]

\* the steps of an execution record: eval.text is hist.eval.text,
\* extracted_content that of the step's last result ("" when the step has no
\* result or no extracted content)
StepRecords == [eval : {NoEval} \cup {[present |-> TRUE, text |-> t] : t \in EvalTexts},
                extracted_content : {"", "content"}]
ExecutionRecords == UNION {[1..n -> StepRecords] : n \in 0..MaxSteps}

DefaultMessage == <<"Task execution completed">>
CaptchaNotice == <<"Note: A CAPTCHA was detected during the task. ">>

\* "eval_text and ('captcha' in eval_text.lower() or 'recaptcha' in ...)"
EvalHasCaptcha(hist) ==
    /\ hist.eval.present
    /\ hist.eval.text # EmptyText
    /\ \/ In(<<"c", "a", "p", "t", "c", "h", "a">>, lower(hist.eval.text))
       \/ In(<<"r", "e", "c", "a", "p", "t", "c", "h", "a">>, lower(hist.eval.text))

\* "for hist in history.history: ... result_message = notice + result_message; break"
RECURSIVE CaptchaLoop(_, _)
CaptchaLoop(steps, message) ==
    IF steps = <<>> THEN message
    ELSE IF EvalHasCaptcha(Head(steps)) THEN CaptchaNotice \o message
    ELSE CaptchaLoop(Tail(steps), message)

\* result_message as execute_task builds it from the execution record
result_message(history) ==
    IF history = <<>> THEN DefaultMessage
    ELSE LET last_history == history[Len(history)]
             message == IF last_history.extracted_content # ""
                        THEN <<last_history.extracted_content>>
                        ELSE DefaultMessage
         IN CaptchaLoop(history, message)

\* get_clean_screenshot up to its first await: the session data and the pool
\* entry it needs; FALSE when it raises before capturing anything
CleanScreenshotStarts(w, session_id) ==
    LET session_data == get_session_data(w, session_id)
        browser_id == DataGet(session_data.ret, "browser_id")
    IN /\ ~session_data.raised
       /\ browser_id # None
       /\ w.browsers[browser_id] # NoHandle

\* mutant: a failed capture leaves no screenshot
NoFallback(inline) == "none"

\* the except branch of the capture: the last step's inline screenshot
\* (last_history.state.screenshot) if it has one
FallbackScreenshot(inline) == IF inline THEN "inline" ELSE "none"

\* TaskResponse(status="success", ...) with the add_history background task
\* queued; include_screenshot is the request's flag and inline whether the
\* last step carries a screenshot
Respond(r, new_url, screenshot, include_screenshot, inline) ==
    /\ req' = [req EXCEPT ![r].pc = "responded", ![r].status = "success",
                          ![r].new_url = new_url, ![r].screenshot = screenshot,
                          ![r].include_screenshot = include_screenshot,
                          ![r].inline = inline]
    /\ last_ok' = [last_ok EXCEPT ![req[r].session_id] =
                     [browser |-> req[r].browser,
                      url |-> IF new_url = None THEN @.url ELSE new_url]]

\* mutant: the failed request closes its browser and drops it from the pool
AgentRaisedClosesBrowser(r) ==
    /\ Fail(r, "run")
    /\ closed' = closed \cup {req[r].browser}
    /\ browsers' = [b \in PoolKeys |->
                      IF browsers[b] = req[r].browser THEN NoHandle ELSE browsers[b]]
    /\ UNCHANGED <<redis, objects, uuids, now, dead, appended, last_ok>>

\* agent.run raised: the except clause answers 500 and touches nothing else
AgentRaised(r) ==
    /\ Fail(r, "run")
    /\ UNCHANGED <<redis, browsers, objects, closed, uuids, now, dead, appended,
                   last_ok>>

\* agent.run is over: it raised, or returned an execution record that is
\* empty or whose last step is at some url (with or without a screenshot)
AgentReturn(r) ==
    /\ req[r].pc = "run"
    /\ \E outcome \in {"raise", "empty", "steps"}, url \in Urls,
          include_screenshot \in BOOLEAN, inline \in BOOLEAN :
         CASE outcome = "raise" ->
                /\ url = 1 /\ ~include_screenshot /\ ~inline
                /\ AgentRaised(r)
           [] outcome = "empty" ->
                /\ url = 1 /\ ~include_screenshot /\ ~inline
                /\ Respond(r, None, "none", FALSE, FALSE)
                /\ UNCHANGED <<redis, browsers, objects, closed, uuids, now,
                               dead, appended>>
           [] OTHER ->
                LET upd == update_session(World, req[r].session_id,
                                          [current_url |-> url])
                IN /\ Commit(upd.w, {}, <<>>)
                   /\ IF include_screenshot
                      THEN IF CleanScreenshotStarts(upd.w, req[r].session_id)
                           THEN /\ req' = [req EXCEPT ![r].pc = "shot",
                                                      ![r].new_url = url,
                                                      ![r].include_screenshot = TRUE,
                                                      ![r].inline = inline]
                                /\ last_ok' = [last_ok EXCEPT
                                                 ![req[r].session_id].url = url]
                           ELSE Respond(r, url, FallbackScreenshot(inline),
                                        TRUE, inline)
                      ELSE ~inline /\ Respond(r, url, "none", FALSE, FALSE)
    /\ UNCHANGED <<served, clear, ret, calls>>

\* the awaits of get_clean_screenshot are over: captured, or raised and the
\* handler falls back to the last step's inline screenshot
ScreenshotReturn(r) ==
    /\ req[r].pc = "shot"
    /\ \E captured \in BOOLEAN :
         Respond(r, req[r].new_url,
                 IF captured THEN "clean" ELSE FallbackScreenshot(req[r].inline),
                 TRUE, req[r].inline)
    /\ UNCHANGED <<redis, browsers, objects, closed, uuids, now, served, clear,
                   ret, calls, dead, appended>>

\* the entry execute_task hands to add_history
HistoryItem(q) == [task |-> q.task, url |-> q.new_url]

\* mutant: the entry is appended twice
BackgroundTwice(r) ==
    /\ req[r].pc = "responded"
    /\ LET h1 == add_history(World, req[r].session_id, HistoryItem(req[r]))
           h == add_history(h1.w, req[r].session_id, HistoryItem(req[r]))
       IN Commit(h.w, {}, <<req[r].session_id, Stamp(World, HistoryItem(req[r]))>>)
    /\ req' = [req EXCEPT ![r] = [IdleReq EXCEPT !.pc = "done", !.status = "success",
                                                 !.stage = "history"]]
    /\ UNCHANGED <<served, clear, ret, calls, last_ok>>

\* the background task runs after the response was sent
Background(r) ==
    /\ req[r].pc = "responded"
    /\ LET h == add_history(World, req[r].session_id, HistoryItem(req[r]))
       IN Commit(h.w, {}, <<req[r].session_id, Stamp(World, HistoryItem(req[r]))>>)
    /\ req' = [req EXCEPT ![r] = [IdleReq EXCEPT !.pc = "done", !.status = "success",
                                                 !.stage = "history"]]
    /\ UNCHANGED <<served, clear, ret, calls, last_ok>>

\* ------------------------------------------------------------ environment
\* time passes; Redis drops the keys whose expiry is over
Tick ==
    /\ now + TickStep <= MaxClock
    /\ Commit(Advance(World, TickStep), {}, <<>>)
    /\ UNCHANGED <<req, served, clear, ret, calls, last_ok>>

\* the orders in which KEYS can list a set of keys
Orders(S) ==
    {f \in [1..Cardinality(S) -> S] : \A i, j \in DOMAIN f : i # j => f[i] # f[j]}

Reclaiming(c) == IF c.pc = "closing" THEN {c.key[2]} ELSE {}

\* clear_inactive_sessions is called and runs to its first suspension
ClearStart ==
    /\ clear.pc = "idle"
    /\ \E order \in Orders(keys_session(World)) :
         LET run == ClearLoop(World, order)
         IN /\ Commit(run.w, Reclaiming(run.clear), <<>>)
            /\ clear' = run.clear
    /\ UNCHANGED <<req, served, ret, calls, last_ok>>

\* browser.close() returned and the pass goes on
ClearResume ==
    /\ clear.pc = "closing"
    /\ LET run == ClearAfterClose(World, clear)
       IN /\ Commit(run.w, Reclaiming(run.clear), <<>>)
          /\ clear' = run.clear
    /\ UNCHANGED <<req, served, ret, calls, last_ok>>

\* --------------------------------------------------- direct method calls
NoRet == [op |-> "none", session_id |-> None, limit |-> 0, raised |-> FALSE,
          id |-> None, data |-> <<>>, list |-> <<>>, retry |-> FALSE]

\* the session ids a caller can pass
Presented == {UnknownId} \cup Minted

ApiStep(w1, push, r) ==
    /\ calls < MaxCalls
    /\ Commit(w1, {}, push)
    /\ ret' = r
    /\ calls' = calls + 1
    /\ UNCHANGED <<req, served, clear, last_ok>>

CallGetSession ==
    \E session_id \in {None} \cup Presented, d \in Jitter :
      LET c == get_session(World, session_id, d)
      IN /\ Mints(World, session_id) \/ d = 0
         /\ Mints(World, session_id) => uuids + 2 <= MaxUuid
         /\ ApiStep(c.w, <<>>, [NoRet EXCEPT !.op = "get_session",
                                  !.session_id = session_id, !.id = c.ret])

CallCreateSession ==
    \E d \in Jitter :
      LET c == create_session(World, d)
      IN /\ uuids + 2 <= MaxUuid
         /\ ApiStep(c.w, <<>>, [NoRet EXCEPT !.op = "create_session", !.id = c.ret])

CallGetSessionData ==
    \E session_id \in Presented :
      LET c == get_session_data(World, session_id)
      IN ApiStep(c.w, <<>>, [NoRet EXCEPT !.op = "get_session_data",
                               !.session_id = session_id, !.raised = c.raised,
                               !.data = IF c.raised THEN <<>> ELSE c.ret])

\* retry: the call follows a get_browser of the same session that raised
CallGetBrowser ==
    \E session_id \in Presented, built \in BOOLEAN :
      LET c == get_browser(World, session_id, built)
      IN /\ built \/ c.raised
         /\ ApiStep(c.w, <<>>, [NoRet EXCEPT !.op = "get_browser",
                                  !.session_id = session_id, !.id = c.ret,
                                  !.raised = c.raised,
                                  !.retry = /\ ret.op = "get_browser"
                                            /\ ret.raised
                                            /\ ret.session_id = session_id])

CallUpdateSession ==
    \E session_id \in Presented, url \in Urls :
      LET c == update_session(World, session_id, [current_url |-> url])
      IN ApiStep(c.w, <<>>, [NoRet EXCEPT !.op = "update_session",
                               !.session_id = session_id, !.raised = c.raised])

CallAddHistory ==
    \E session_id \in Presented :
      LET item == [task |-> calls + 1, url |-> None]
          c == add_history(World, session_id, item)
      IN ApiStep(c.w, <<session_id, Stamp(World, item)>>,
                 [NoRet EXCEPT !.op = "add_history", !.session_id = session_id])

CallGetHistory ==
    \E session_id \in Presented, limit \in -1..MaxCalls :
      LET c == get_history(World, session_id, limit)
      IN ApiStep(c.w, <<>>, [NoRet EXCEPT !.op = "get_history",
                               !.session_id = session_id, !.limit = limit,
                               !.list = c.ret])

\* execute_task builds the message of a success response from the
\* execution record agent.run returned
BuildMessage ==
    /\ \E history \in ExecutionRecords :
         ret' = [NoRet EXCEPT !.op = "message", !.data = history,
                              !.list = result_message(history)]
    /\ UNCHANGED <<redis, browsers, objects, closed, uuids, now, req, served,
                   clear, calls, dead, appended, last_ok>>

\* ------------------------------------------------------------ specification
Init ==
    /\ redis = [k \in RedisKeys |-> Nil]
    /\ browsers = [k \in PoolKeys |-> NoHandle]
    /\ objects = <<>>
    /\ closed = {}
    /\ uuids = 0
    /\ now = 0
    /\ req = [r \in Requests |-> IdleReq]
    /\ served = 0
    /\ clear = ClearIdle
    /\ ret = NoRet
    /\ calls = 0
    /\ dead = {}
    /\ appended = [k \in SessionIds |-> <<>>]
    /\ last_ok = [k \in SessionIds |-> [browser |-> NoHandle, url |-> None]]

Next ==
    \/ \E r \in Requests : Receive(r)
    \/ \E r \in Requests : RagflowSession(r)
    \/ \E r \in Requests : RagflowAnswer(r)
    \/ \E r \in Requests : Refined(r)
    \/ \E r \in Requests : AgentReturn(r)
    \/ \E r \in Requests : ScreenshotReturn(r)
    \/ \E r \in Requests : Background(r)
    \/ Tick
    \/ ClearStart
    \/ ClearResume

Spec == Init /\ [][Next]_vars

NextApi ==
    \/ CallGetSession
    \/ CallCreateSession
    \/ CallGetSessionData
    \/ CallGetBrowser
    \/ CallUpdateSession
    \/ CallAddHistory
    \/ CallGetHistory
    \/ Tick
    \/ ClearStart
    \/ ClearResume

SpecApi == Init /\ [][NextApi]_vars

NextMsg == BuildMessage

SpecMsg == Init /\ [][NextMsg]_vars

\* ------------------------------------------------------------------ claims
\* the requests that hold a browser from get_browser and are still using it
InUse(r) == req[r].pc \in {"run", "shot"}

\* the Browser objects constructed for a pool key
Built(browser_id) == {o \in 1..Len(objects) : objects[o] = browser_id}

\* C1: for a session whose record is live (never expired, not being
\* reclaimed), however many requests reach get_browser for it, one Browser is
\* constructed under its browser_id and every request holds that pool entry.
C1_OneBrowserPerSession ==
    \A k \in Minted :
      (k \notin dead /\ exists(World, SessionKey(k))) =>
        LET browser_id == hget(World, SessionKey(k), "browser_id")
        IN /\ browser_id # None
           /\ Cardinality(Built(browser_id)) <= 1
           /\ \A r \in Requests :
                (req[r].session_id = k /\ req[r].pc \in {"run", "shot", "responded"})
                  => /\ req[r].browser # NoHandle
                     /\ req[r].browser = browsers[browser_id]

\* two requests of one live session are running on the same Browser
C1_Witness ==
    \E r1, r2 \in Requests :
      /\ r1 # r2
      /\ req[r1].pc = "run" /\ req[r2].pc = "run"
      /\ req[r1].session_id = req[r2].session_id
      /\ req[r1].session_id \notin dead
      /\ req[r1].browser = req[r2].browser
      /\ req[r1].browser # NoHandle
      /\ Len(objects) = 1

\* C2: clear_inactive_sessions never takes out of the pool, nor closes, a
\* browser that a request obtained from get_browser and whose agent.run or
\* screenshot capture has not returned.
C2_InUseBrowserNotReclaimed ==
    \A r \in Requests :
      InUse(r) =>
        /\ req[r].browser \notin closed
        /\ ~(clear.pc = "closing" /\ clear.browser = req[r].browser)

\* a record the claim calls older than, or within, SESSION_TIMEOUT
Stale(k) ==
    /\ exists(World, SessionKey(k))
    /\ redis[SessionKey(k)].last_active # None
    /\ now - redis[SessionKey(k)].last_active > SESSION_TIMEOUT

Fresh(k) ==
    /\ exists(World, SessionKey(k))
    /\ redis[SessionKey(k)].last_active # None
    /\ now - redis[SessionKey(k)].last_active <= SESSION_TIMEOUT

\* the session ids a suspended pass has still to visit
Pending(c) == {c.keys[i][2] : i \in 1..Len(c.keys)}

\* after the step: no record, no history, no pool entry, the browser closed
ReclaimedAfter(k) ==
    LET browser_id == redis[SessionKey(k)].browser_id
    IN /\ ~exists(World', SessionKey(k))
       /\ ~exists(World', HistoryKey(k))
       /\ browsers'[browser_id] = NoHandle
       /\ browsers[browser_id] # NoHandle => browsers[browser_id] \in closed'

\* after the step: out of the pool, and the pass waits for its close()
ClosingAfter(k) ==
    LET browser_id == redis[SessionKey(k)].browser_id
    IN /\ clear'.pc = "closing"
       /\ clear'.key = SessionKey(k)
       /\ clear'.browser = browsers[browser_id]
       /\ clear'.browser # NoHandle
       /\ browsers'[browser_id] = NoHandle

\* after the step: record, history and pool entry as before
KeptAfter(k) ==
    LET browser_id == redis[SessionKey(k)].browser_id
    IN /\ redis'[SessionKey(k)] = redis[SessionKey(k)]
       /\ redis'[HistoryKey(k)] = redis[HistoryKey(k)]
       /\ browser_id # None => browsers'[browser_id] = browsers[browser_id]

\* what one run of the pass, from its start or from a close(), leaves
C3_PassStep ==
    LET visiting == IF clear.pc = "idle"
                    THEN {k \in SessionIds : exists(World, SessionKey(k))}
                    ELSE Pending(clear)
    IN /\ clear.pc = "closing" =>
            /\ ~exists(World', clear.key)
            /\ ~exists(World', HistoryKey(clear.key[2]))
            /\ clear.browser \in closed'
            /\ \A b \in PoolKeys : browsers'[b] # clear.browser
       /\ \A k \in visiting :
            Stale(k) => \/ ReclaimedAfter(k)
                        \/ ClosingAfter(k)
                        \/ k \in Pending(clear')
       /\ \A k \in SessionIds :
            (Fresh(k) /\ SessionKey(k) # clear.key) => KeptAfter(k)

\* C3: a clear_inactive_sessions pass deletes session:{id} and history:{id}
\* of every record it visits whose last_active is older than SESSION_TIMEOUT
\* and closes its browser and takes it out of the pool; a record whose
\* last_active is within SESSION_TIMEOUT keeps record, history and pool entry.
C3_ReclamationPass == [][(ClearStart \/ ClearResume) => C3_PassStep]_vars

\* a pass is closing the browser of a stale session after it visited, and
\* kept, a fresh session that has a pool entry
C3_Witness ==
    /\ clear.pc = "closing"
    /\ \E k \in Minted :
         /\ Fresh(k)
         /\ SessionKey(k) # clear.key
         /\ k \notin Pending(clear)
         /\ browsers[redis[SessionKey(k)].browser_id] # NoHandle

\* no execute_task request is in flight and no reclamation pass is running
Quiet == (\A r \in Requests : Free(r)) /\ clear.pc = "idle"

\* C4: every session that is no longer touched is eventually reclaimed: its
\* records leave the store and its browser is closed and taken out of the
\* pool.  clear_inactive_sessions reaches a pool entry only through the
\* browser_id of a record in the store, so the claim needs every pool entry
\* of a quiet system to be named by a record: an entry whose record is gone
\* can never be closed.
C4_IdleSessionsReclaimed ==
    Quiet =>
      \A b \in PoolKeys :
        browsers[b] # NoHandle =>
          \E k \in SessionIds :
            exists(World, SessionKey(k)) /\ redis[SessionKey(k)].browser_id = b

\* the step is a direct call of the method `op`
Called(op) == calls' = calls + 1 /\ ret'.op = op

\* C5: get_session(presented_id) does not raise; given an id whose
\* session:{id} exists it returns that id, sets last_active to the time of the
\* call, renews the expiry and creates no record; given no id, or an id with
\* no record, it creates exactly one record and returns its freshly minted id.
C5_GetSession ==
    [][Called("get_session") =>
         LET presented_id == ret'.session_id
             before == keys_session(World)
             after == keys_session(World')
         IN /\ ~ret'.raised
            /\ IF presented_id # None /\ SessionKey(presented_id) \in before
               THEN /\ ret'.id = presented_id
                    /\ after = before
                    /\ uuids' = uuids
                    /\ redis'[SessionKey(presented_id)].last_active = now
                    /\ redis'[SessionKey(presented_id)].expire_at = now + SESSION_TIMEOUT
               ELSE /\ ret'.id \in Uuids
                    /\ ret'.id > uuids
                    /\ ret'.id # presented_id
                    /\ SessionKey(ret'.id) \notin before
                    /\ after = before \cup {SessionKey(ret'.id)}
                    /\ redis'[SessionKey(ret'.id)].expire_at = now + SESSION_TIMEOUT
    ]_vars

\* get_session returned a live id it was given, after time had passed since
\* the record's last touch
C5_Witness ==
    /\ ret.op = "get_session"
    /\ ret.session_id \in Minted
    /\ ret.id = ret.session_id
    /\ redis[SessionKey(ret.id)].last_active = now
    /\ redis[SessionKey(ret.id)].created_at < now

\* C7: create_session followed at once by get_session_data of the id it
\* returned gives a record with an empty current_url, a non-empty browser_id
\* and created_at equal to last_active.
C7_CreateThenGetData ==
    [][(ret.op = "create_session" /\ Called("get_session_data")
        /\ ret'.session_id = ret.id) =>
         /\ ~ret'.raised
         /\ DataGet(ret'.data, "current_url") = EmptyStr
         /\ DataGet(ret'.data, "browser_id") # None
         /\ DataGet(ret'.data, "created_at") = DataGet(ret'.data, "last_active")
    ]_vars

IsPrefix(s, t) == Len(s) <= Len(t) /\ SubSeq(t, 1, Len(s)) = s

\* the last k of a sequence, all of it when it has fewer
LastN(s, k) == SubSeq(s, Len(s) - Min(k, Len(s)) + 1, Len(s))

\* C8: after n add_history calls on a session (with no expiry or reclamation
\* of history:{id} among them) get_history returns all n entries in append
\* order for limit <= 0 and the last min(limit, n) of them in append order for
\* limit > 0; an append leaves the entries already appended as they were.
C8_HistoryOrder ==
    [][/\ Called("get_history") =>
            ret'.list = IF ret'.limit <= 0
                        THEN appended[ret'.session_id]
                        ELSE LastN(appended[ret'.session_id], ret'.limit)
       /\ Called("add_history") =>
            /\ IsPrefix(redis[HistoryKey(ret'.session_id)].items,
                        redis'[HistoryKey(ret'.session_id)].items)
            /\ Len(redis'[HistoryKey(ret'.session_id)].items)
                 = Len(redis[HistoryKey(ret'.session_id)].items) + 1
            /\ get_history(World', ret'.session_id, -1).ret
                 = Append(get_history(World, ret'.session_id, -1).ret,
                          appended'[ret'.session_id][Len(appended'[ret'.session_id])])
    ]_vars

\* three entries were appended and get_history(limit = 2) returned the last two
C8_Witness ==
    /\ ret.op = "get_history"
    /\ ret.limit = 2
    /\ Len(appended[ret.session_id]) = 3
    /\ ret.list = SubSeq(appended[ret.session_id], 2, 3)
    /\ ret.list[1].task < ret.list[2].task

\* C6: when a request presents the session_id a successful request returned,
\* and the record stayed live in between (not expired, not reclaimed), its
\* get_browser returns the pool browser that request used and constructs
\* none, and the current_url it reads as refinement context is the url that
\* request persisted.
C6_SessionAffinity ==
    [][\A r \in Requests :
         LET k == req[r].session_id
         IN /\ (req[r].pc = "rag2" /\ req'[r].pc = "llm"
                /\ k \notin dead /\ last_ok[k].url # None)
               => req'[r].current_url = last_ok[k].url
            /\ (req[r].pc = "llm" /\ req'[r].pc = "run"
                /\ k \notin dead /\ last_ok[k].browser # NoHandle)
               => /\ req'[r].browser = last_ok[k].browser
                  /\ objects' = objects
    ]_vars

\* the second request of a session runs on the first one's browser, with the
\* url the first one persisted as its context
C6_Witness ==
    \E r \in Requests :
      /\ req[r].pc = "run"
      /\ req[r].task = 2
      /\ req[r].session_id \notin dead
      /\ req[r].current_url \in Urls
      /\ req[r].current_url = last_ok[req[r].session_id].url
      /\ req[r].browser = last_ok[req[r].session_id].browser
      /\ Len(objects) = 1

\* C9: a failure of the LLM refinement does not fail the request: the
\* request whose refinement is over goes on to get_browser and agent.run.
C9_RefinementFailureTolerated ==
    [][\A r \in Requests :
         req[r].pc = "llm" => req'[r].pc \in {"llm", "run"} /\ req'[r].status # "error"
    ]_vars

\* C10: when agent.run raises the request ends with HTTP 500 and the handler
\* leaves the store and the pool as they are, nothing deleted and nothing
\* closed, so a get_browser that follows for the same session_id returns the
\* same browser and constructs none.
C10_AutomationFailureKeepsSession ==
    [][\A r \in Requests :
         (req[r].pc = "run" /\ req'[r].stage = "run") =>
           LET k == req[r].session_id
               browser_id == hget(World, SessionKey(k), "browser_id")
               retry == get_browser(World', k, TRUE)
           IN /\ req'[r].status = "error"
              /\ req'[r].pc = "done"
              /\ redis' = redis
              /\ browsers' = browsers
              /\ closed' = closed
              /\ (browser_id # None /\ browsers[browser_id] = req[r].browser)
                   => /\ retry.ret = req[r].browser
                      /\ retry.w.objects = objects
    ]_vars

\* one request of a session ended in the 500 of a failed agent.run and the
\* next request of that session runs on the browser it had used
C10_Witness ==
    \E r1, r2 \in Requests :
      /\ req[r1].pc = "done" /\ req[r1].stage = "run" /\ req[r1].status = "error"
      /\ req[r2].pc = "run" /\ req[r2].task = 2
      /\ req[r2].session_id \notin dead
      /\ req[r2].browser = 1
      /\ Len(objects) = 1
      /\ closed = {}
      /\ uuids = 2

\* C11: when the Browser constructor raises inside get_browser the call
\* raises and leaves the store and the pool as they were (the record keeps its
\* browser_id, the pool has no entry under it); the next get_browser for the
\* session, while its record is still there, constructs one Browser and puts
\* it in the pool under that browser_id, and the one after that constructs none.
C11_BrowserFailureRetry ==
    [][Called("get_browser") =>
         LET k == ret'.session_id
             browser_id == hget(World, SessionKey(k), "browser_id")
             again == get_browser(World', k, TRUE)
             after == get_browser(again.w, k, TRUE)
         IN /\ ret'.raised =>
                 /\ redis' = redis
                 /\ browsers' = browsers
                 /\ objects' = objects
                 /\ closed' = closed
                 /\ browser_id # None =>
                      /\ hget(World', SessionKey(k), "browser_id") = browser_id
                      /\ browsers'[browser_id] = NoHandle
                      /\ ~again.raised
                      /\ Len(again.w.objects) = Len(objects) + 1
                      /\ again.w.objects[again.ret] = browser_id
                      /\ again.w.browsers[browser_id] = again.ret
                      /\ \A b \in PoolKeys \ {browser_id} :
                           again.w.browsers[b] = browsers[b]
                      /\ after.ret = again.ret
                      /\ after.w = again.w
            /\ (ret'.retry /\ ~ret'.raised /\ browser_id # None) =>
                 /\ Len(objects') = Len(objects) + 1
                 /\ objects'[ret'.id] = browser_id
                 /\ browsers'[browser_id] = ret'.id
                 /\ \A o \in 1..Len(objects') :
                      objects'[o] = browser_id => o = ret'.id
                 /\ redis' = redis
    ]_vars

\* a get_browser that raised was followed by one for the same, live session
\* that returned the only Browser constructed under its browser_id
C11_Witness ==
    /\ ret.op = "get_browser"
    /\ ret.retry
    /\ ~ret.raised
    /\ ret.session_id \in Minted
    /\ exists(World, SessionKey(ret.session_id))
    /\ browsers[redis[SessionKey(ret.session_id)].browser_id] = ret.id
    /\ ret.id # NoHandle
    /\ Built(redis[SessionKey(ret.session_id)].browser_id) = {ret.id}

\* C12: with include_screenshot set, a clean capture that fails (before its
\* first await or in one of its awaits) never turns the request into an
\* error: the request answers success, with the last step's inline screenshot
\* if that step has one and with none otherwise.
C12_ScreenshotFallback ==
    [][\A r \in Requests :
         /\ req[r].pc = "shot" =>
              /\ req'[r].pc \in {"shot", "responded"}
              /\ req'[r].status # "error"
         /\ (req[r].pc \in {"run", "shot"} /\ req'[r].pc = "responded"
             /\ req'[r].include_screenshot /\ req'[r].screenshot # "clean") =>
              /\ req'[r].status = "success"
              /\ req'[r].screenshot = IF req'[r].inline THEN "inline" ELSE "none"
              /\ req[r].pc = "shot" => req'[r].inline = req[r].inline
    ]_vars

\* a capture that was started failed and the response carries the last
\* step's inline screenshot
C12_Witness ==
    \E r \in Requests :
      /\ req[r].pc = "responded"
      /\ req[r].status = "success"
      /\ req[r].include_screenshot
      /\ req[r].inline
      /\ req[r].screenshot = "inline"
      /\ req[r].new_url \in Urls

\* the history lists of the store
Histories == [k \in SessionIds |-> redis[HistoryKey(k)].items]

\* C13: a request that carries no ragflow_session_id calls call_ragflow_api
\* once without a session and, having obtained a session id, once more bound
\* to it; a request that carries one calls it once.  A request that gets no
\* session id, or no answer, ends with HTTP 500 at that point: it acquires no
\* browser, never reaches agent.run and appends no history entry.
C13_RagflowCalls ==
    [][\A r \in Requests :
         /\ req'[r].pc = "rag1" =>
              /\ req'[r].ragflow_session_id = "none"
              /\ req'[r].ragflow_calls = 1
         /\ req'[r].pc = "rag2" =>
              /\ req'[r].ragflow_session_id \in {"given", "obtained"}
              /\ req'[r].ragflow_calls =
                   IF req'[r].ragflow_session_id = "given" THEN 1 ELSE 2
         /\ (req[r].pc = "rag1" /\ req'[r].pc = "rag2") =>
              req'[r].ragflow_session_id = "obtained"
         /\ (req[r].pc = "rag2" /\ req'[r].pc = "llm") =>
              req[r].ragflow_calls =
                IF req[r].ragflow_session_id = "given" THEN 1 ELSE 2
         /\ (req[r].pc \in {"rag1", "rag2"} /\ req'[r].pc # req[r].pc) =>
              \/ req[r].pc = "rag1" /\ req'[r].pc = "rag2"
              \/ req[r].pc = "rag2" /\ req'[r].pc = "llm"
              \/ /\ req'[r].pc = "done"
                 /\ req'[r].status = "error"
                 /\ req'[r].browser = NoHandle
                 /\ browsers' = browsers
                 /\ objects' = objects
                 /\ Histories' = Histories
         /\ req'[r].pc = "run" => req[r].pc \in {"llm", "run"}
         /\ req'[r].pc = "llm" => req[r].pc \in {"rag2", "llm"}
    ]_vars

\* a request that carried no ragflow_session_id made its second call, and
\* another one ended with an error in the ragflow stage with no browser built
C13_Witness ==
    \E r1, r2 \in Requests :
      /\ req[r1].pc = "rag2"
      /\ req[r1].ragflow_session_id = "obtained"
      /\ req[r1].ragflow_calls = 2
      /\ req[r2].pc = "done"
      /\ req[r2].stage = "ragflow"
      /\ req[r2].status = "error"
      /\ objects = <<>>

\* C14: update_session on a session_id that has no record raises NotFound
\* and leaves the store as it was: no session:{id} key is created.
C14_UpdateMissingSessionFails ==
    [][(Called("update_session") /\ ~exists(World, SessionKey(ret'.session_id))) =>
         /\ ret'.raised
         /\ redis' = redis
         /\ ~exists(World', SessionKey(ret'.session_id))
    ]_vars

\* C15: every session:{id} key in the store has an expiry, and it is at most
\* SESSION_TIMEOUT after the record's last touch (which is not after now).
C15_SessionKeysExpire ==
    \A k \in SessionIds :
      exists(World, SessionKey(k)) =>
        /\ redis[SessionKey(k)].expire_at # None
        /\ redis[SessionKey(k)].expire_at <= now + SESSION_TIMEOUT

\* C16: every session record in the store holds a browser_id, and a record
\* that is in the store before and after a step holds the same browser_id.
C16_BrowserIdFixed ==
    [][\A k \in SessionIds :
         /\ exists(World', SessionKey(k)) =>
              redis'[SessionKey(k)].browser_id \in Uuids
         /\ (exists(World, SessionKey(k)) /\ exists(World', SessionKey(k))) =>
              redis'[SessionKey(k)].browser_id = redis[SessionKey(k)].browser_id
    ]_vars

\* a step of a request handler or of a SessionManager method other than
\* clear_inactive_sessions
HandlerStep == calls' = calls + 1 \/ served' = served + 1 \/ req' # req

\* C17: a step of a request handler or of one of the SessionManager methods
\* it calls leaves every entry already in the pool in place, bound to the
\* same Browser, and closes no Browser.
C17_HandlersKeepPoolEntries ==
    [][HandlerStep =>
         /\ \A b \in PoolKeys : browsers[b] # NoHandle => browsers'[b] = browsers[b]
         /\ closed' = closed
    ]_vars

\* C20: while the record of a session stays in the store (no expiry, no
\* reclamation) each step leaves what get_history(session_id) returned before
\* it as a prefix of what it returns after it.
C20_HistoryNeverShortened ==
    [][\A k \in Minted :
         (exists(World, SessionKey(k)) /\ exists(World', SessionKey(k))
          /\ k \notin dead') =>
           IsPrefix(get_history(World, k, -1).ret, get_history(World', k, -1).ret)
    ]_vars

\* C19: a request that answered success appends exactly one entry, its own,
\* to history:{session_id} of the session_id it returned, in a step after the
\* one that built the response; nothing else appends: not the step that
\* builds a response, and no step of a request that ends with an error.
C19_OneHistoryEntryPerSuccess ==
    [][/\ \A r \in Requests :
            LET k == req[r].session_id
            IN /\ (req[r].pc = "responded" /\ req'[r] # req[r]) =>
                    /\ req'[r].pc = "done"
                    /\ req'[r].status = "success"
                    /\ Histories'[k] =
                         Append(Histories[k],
                                json_dumps(Stamp(World, HistoryItem(req[r]))))
                    /\ \A j \in SessionIds \ {k} : Histories'[j] = Histories[j]
               /\ (req[r].pc # "responded" /\ req'[r].pc = "responded") =>
                    /\ req'[r].status = "success"
                    /\ Histories' = Histories
               /\ (req'[r] # req[r] /\ req'[r].status = "error") =>
                    Histories' = Histories
               /\ (req'[r].pc = "done" /\ req'[r].status = "success"
                   /\ req'[r] # req[r]) => req[r].pc = "responded"
       /\ \A k \in SessionIds :
            Len(Histories'[k]) > Len(Histories[k]) =>
              \E r \in Requests :
                /\ req[r].pc = "responded"
                /\ req[r].session_id = k
                /\ req'[r].pc = "done"
    ]_vars

\* two successful requests of one session have each appended their entry
C19_Witness ==
    \E k \in Minted :
      /\ Len(Histories[k]) = 2
      /\ json_loads(Histories[k][1]).task = 1
      /\ json_loads(Histories[k][2]).task = 2
      /\ \A r \in Requests : req[r].pc = "done" /\ req[r].status = "success"

\* the evaluation texts that contain "captcha" whatever the case of letters
CaptchaTexts == {ReCaptchaDetected, CaptchaLower, CaptchaMixed}

\* the message without the notice: the last step's extracted content, or
\* the default
Unprefixed(history) ==
    IF history # <<>> /\ history[Len(history)].extracted_content # ""
    THEN <<history[Len(history)].extracted_content>>
    ELSE DefaultMessage

\* C18: the message of a success response is the CAPTCHA notice followed by
\* the result message when some step's evaluation text contains "captcha" in
\* any case, with the notice once however many steps match, and the result
\* message alone when no step does.
C18_CaptchaNotice ==
    ret.op = "message" =>
      LET history == ret.data
          message == ret.list
          matches == {i \in 1..Len(history) : /\ history[i].eval.present
                                               /\ history[i].eval.text \in CaptchaTexts}
      IN /\ (message[1] = CaptchaNotice[1]) <=> (matches # {})
         /\ matches # {} => message = CaptchaNotice \o Unprefixed(history)
         /\ matches = {} => message = Unprefixed(history)
         /\ Cardinality({i \in 1..Len(message) : message[i] = CaptchaNotice[1]}) <= 1

\* two steps report a CAPTCHA, one of them in upper case, and the message
\* carries the notice once before the extracted content
C18_Witness ==
    /\ ret.op = "message"
    /\ Len(ret.data) = 2
    /\ ret.data[1].eval.text = ReCaptchaDetected
    /\ ret.data[2].eval.text = CaptchaLower
    /\ ret.data[2].extracted_content = "content"
    /\ ret.list = <<CaptchaNotice[1], "content">>

\* C21: the step in which a request arrives (the get_session dependency and
\* the new_session branch of execute_task) creates at most one session record,
\* and a record it creates is the one whose id the request returns.
C21_OneRecordPerRequest ==
    [][\A r \in Requests :
         (served' = served + 1 /\ req'[r].task = served + 1) =>
           LET created == keys_session(World') \ keys_session(World)
           IN /\ Cardinality(created) <= 1
              /\ created \subseteq {SessionKey(req'[r].session_id)}
    ]_vars

\* the browser_ids create_session has assigned so far
AssignedBrowserIds == {i \in Uuids : i <= uuids /\ i % 2 = 0}

\* C22: every key of the browser pool is a browser_id that create_session
\* assigned to a session record; no entry sits under the missing (None) key,
\* which is what get_browser reads for a session_id whose record is missing.
C22_PoolKeysAreBrowserIds ==
    \A b \in PoolKeys :
      browsers[b] # NoHandle => b # None /\ b \in AssignedBrowserIds
====
